---- MODULE Spec2Model ----
(***************************************************************************)
(* A model of src/server/utils/email.ts: the SMTP transport resolution of  *)
(* createTransporter, the dispatch of sendEmail, verifyEmailConfig and the *)
(* POST /api/send-email handler.                                           *)
(*                                                                         *)
(* JavaScript values are tagged records, so that truthiness, `||`, `??`    *)
(* and `===` are computed as the language computes them.  A string is the  *)
(* sequence of its symbols: single characters, or a fixed text of the      *)
(* program taken as one symbol.                                            *)
(***************************************************************************)
EXTENDS Integers, Sequences, FiniteSets, TLC

VARIABLES
    env,                  \* process.env, set once at startup
    pc,                   \* "idle", "sendMail", "verify", "done"
    entry,                \* entry point of the call in progress
    options,              \* argument of sendEmail / createTransporter
    resolvedFrom,         \* branch createTransporter took
    transporter,          \* config handed to nodemailer.createTransport
    mailOptions,          \* message handed to transporter.sendMail
    rejection,            \* value transporter.sendMail rejected with
    thrown,               \* error the call ended with
    result,               \* value the call returned
    response,             \* HTTP responses written for the request
    createTransportCalls, \* calls of nodemailer.createTransport in this call
    sendMailCalls         \* calls of transporter.sendMail in this call

vars == <<env, pc, entry, options, resolvedFrom, transporter, mailOptions,
          rejection, thrown, result, response, createTransportCalls, sendMailCalls>>

----------------------------------------------------------------------------
(* JavaScript values *)

Undef == [t |-> "undefined"]
NaN == [t |-> "NaN"]
Str(s) == [t |-> "string", v |-> s]
Num(n) == [t |-> "number", v |-> n]
Bool(b) == [t |-> "boolean", v |-> b]
Arr(a) == [t |-> "array", v |-> a]
Error(m) == [t |-> "Error", message |-> m]

\* ToBoolean
Truthy(x) ==
    CASE x.t = "undefined" -> FALSE
      [] x.t = "NaN" -> FALSE
      [] x.t = "string" -> x.v # <<>>
      [] x.t = "number" -> x.v # 0
      [] x.t = "boolean" -> x.v
      [] OTHER -> TRUE

\* a || b
Or(a, b) == IF Truthy(a) THEN a ELSE b

\* a ?? b
Nullish(a, b) == IF a = Undef THEN b ELSE a

\* String.prototype.includes for a one-character needle
Includes(s, c) == \E i \in DOMAIN s.v : s.v[i] = c

IsArray(x) == x.t = "array"

Digits == <<"0", "1", "2", "3", "4", "5", "6", "7", "8", "9">>

IsDigit(c) == \E d \in DOMAIN Digits : Digits[d] = c

DigitValue(c) == (CHOOSE d \in DOMAIN Digits : Digits[d] = c) - 1

\* number of leading decimal digits of a symbol sequence
RECURSIVE LeadingDigits(_)
LeadingDigits(s) ==
    IF s = <<>> \/ ~IsDigit(Head(s)) THEN 0 ELSE 1 + LeadingDigits(Tail(s))

RECURSIVE DecimalValue(_)
DecimalValue(s) ==
    IF s = <<>> THEN 0
    ELSE 10 * DecimalValue(SubSeq(s, 1, Len(s) - 1)) + DigitValue(s[Len(s)])

\* parseInt(s, 10) of an unsigned string without leading blanks: the value of
\* the leading digits, NaN when there is none
parseInt(s) ==
    IF LeadingDigits(s.v) = 0 THEN NaN
    ELSE Num(DecimalValue(SubSeq(s.v, 1, LeadingDigits(s.v))))

\* Number(x): undefined is NaN, "" is 0, a digit string its value, any other
\* string NaN
Number(x) ==
    CASE x.t = "undefined" -> NaN
      [] x.t = "number" -> x
      [] x.t = "NaN" -> x
      [] x.t = "string" ->
            IF LeadingDigits(x.v) = Len(x.v) THEN Num(DecimalValue(x.v)) ELSE NaN
      [] OTHER -> NaN

\* Array.prototype.join(', ') of an array of strings
RECURSIVE JoinSeq(_)
JoinSeq(a) ==
    IF a = <<>> THEN <<>>
    ELSE IF Len(a) = 1 THEN a[1].v
    ELSE a[1].v \o <<",", " ">> \o JoinSeq(Tail(a))

join(x) == Str(JoinSeq(x.v))

----------------------------------------------------------------------------
(* createTransporter *)

ImplicitTLSPort == 465

StartTLSPort == 587

ConnectionTimeout == 10000

GreetingTimeout == 5000

SocketTimeout == 10000

DefaultPort == Str(<<"5", "8", "7">>)

DefaultService == Str(<<"g", "m", "a", "i", "l">>)

MissingSmtpFields == <<"Invalid integration config: missing required SMTP fields">>

InvalidSmtpHost(host) ==
    <<"Invalid SMTP Host: \"">> \o host.v
        \o <<"\" is an email address. Use server address like \"smtp.gmail.com\"">>

MissingEmailConfiguration ==
    <<"Email configuration is missing. Please set EMAIL_USER and EMAIL_PASSWORD in .env">>

\* outcome of a function call: a returned value or a thrown error
Return(v, branch) == [threw |-> FALSE, value |-> v, branch |-> branch]

Throw(e, branch) == [threw |-> TRUE, value |-> e, branch |-> branch]

\* an EmailConfig object; a key that is not set reads undefined
EmailConfig ==
    [host |-> Undef, port |-> Undef, secure |-> Undef, requireTLS |-> Undef,
     auth |-> Undef, service |-> Undef, connectionTimeout |-> Undef,
     greetingTimeout |-> Undef, socketTimeout |-> Undef, logger |-> Undef,
     debug |-> Undef]

\* SecurityFlags without its branch for port 587
SecurityFlagsNoStartTLS(port, smtp_secure) ==
    IF port = Num(ImplicitTLSPort)
    THEN [secure |-> Bool(TRUE), requireTLS |-> Undef]
    ELSE LET secure == Nullish(smtp_secure, Bool(FALSE))
         IN  [secure |-> secure,
              requireTLS |-> IF Truthy(secure) THEN Undef ELSE Bool(TRUE)]

\* the secure / requireTLS pair derived from the port and smtp_secure
SecurityFlags(port, smtp_secure) ==
    IF port = Num(ImplicitTLSPort)
    THEN [secure |-> Bool(TRUE), requireTLS |-> Undef]
    ELSE IF port = Num(StartTLSPort)
    THEN [secure |-> Bool(FALSE), requireTLS |-> Bool(TRUE)]
    ELSE LET secure == Nullish(smtp_secure, Bool(FALSE))
         IN  [secure |-> secure,
              requireTLS |-> IF Truthy(secure) THEN Undef ELSE Bool(TRUE)]

\* MissingRequiredFields that checks the host alone
MissingHostOnly(c) == ~Truthy(c.smtp_host)

MissingRequiredFields(c) ==
    ~Truthy(c.smtp_host) \/ ~Truthy(c.smtp_user) \/ ~Truthy(c.smtp_password)

\* HostIsEmailAddress with startsWith in place of includes
HostStartsWithAt(c) == c.smtp_host.v[1] = "@"

HostIsEmailAddress(c) == Includes(c.smtp_host, "@")

IntegrationTransport(c) ==
    LET flags == SecurityFlags(c.smtp_port, c.smtp_secure)
    IN  [EmailConfig EXCEPT
            !.host = c.smtp_host,
            !.port = c.smtp_port,
            !.secure = flags.secure,
            !.requireTLS = flags.requireTLS,
            !.auth = [user |-> c.smtp_user, pass |-> c.smtp_password],
            !.connectionTimeout = Num(ConnectionTimeout),
            !.greetingTimeout = Num(GreetingTimeout),
            !.socketTimeout = Num(SocketTimeout),
            !.logger = Bool(TRUE),
            !.debug = Bool(TRUE)]

\* EnvironmentTarget with independent tests in place of the else-if chain
EnvironmentTargetUnchained(config, e) ==
    LET emailPort == parseInt(Or(e.EMAIL_PORT, DefaultPort))
        withService == IF Truthy(e.EMAIL_SERVICE)
                       THEN [config EXCEPT !.service = e.EMAIL_SERVICE]
                       ELSE config
    IN  IF Truthy(e.EMAIL_HOST)
        THEN [withService EXCEPT
                !.host = e.EMAIL_HOST,
                !.port = emailPort,
                !.secure = Bool(emailPort = Num(ImplicitTLSPort))]
        ELSE withService

\* EnvironmentTarget that sets secure on the STARTTLS port
EnvironmentTargetWrongPort(config, e) ==
    LET emailPort == parseInt(Or(e.EMAIL_PORT, DefaultPort))
    IN  IF Truthy(e.EMAIL_SERVICE)
        THEN [config EXCEPT !.service = e.EMAIL_SERVICE]
        ELSE IF Truthy(e.EMAIL_HOST)
        THEN [config EXCEPT
                !.host = e.EMAIL_HOST,
                !.port = emailPort,
                !.secure = Bool(emailPort = Num(StartTLSPort))]
        ELSE [config EXCEPT !.service = DefaultService]

\* EnvironmentTarget that tests the host before the service
EnvironmentTargetHostFirst(config, e) ==
    LET emailPort == parseInt(Or(e.EMAIL_PORT, DefaultPort))
    IN  IF Truthy(e.EMAIL_HOST)
        THEN [config EXCEPT
                !.host = e.EMAIL_HOST,
                !.port = emailPort,
                !.secure = Bool(emailPort = Num(ImplicitTLSPort))]
        ELSE IF Truthy(e.EMAIL_SERVICE)
        THEN [config EXCEPT !.service = e.EMAIL_SERVICE]
        ELSE [config EXCEPT !.service = DefaultService]

\* the service / host / port / secure keys chosen from the environment
EnvironmentTarget(config, e) ==
    LET emailPort == parseInt(Or(e.EMAIL_PORT, DefaultPort))
    IN  IF Truthy(e.EMAIL_SERVICE)
        THEN [config EXCEPT !.service = e.EMAIL_SERVICE]
        ELSE IF Truthy(e.EMAIL_HOST)
        THEN [config EXCEPT
                !.host = e.EMAIL_HOST,
                !.port = emailPort,
                !.secure = Bool(emailPort = Num(ImplicitTLSPort))]
        ELSE [config EXCEPT !.service = DefaultService]

MissingCredentials(e) == ~Truthy(e.EMAIL_USER) \/ ~Truthy(e.EMAIL_PASSWORD)

EnvironmentTransport(e) ==
    EnvironmentTarget(
        [EmailConfig EXCEPT
            !.auth = [user |-> e.EMAIL_USER, pass |-> e.EMAIL_PASSWORD],
            !.connectionTimeout = Num(ConnectionTimeout),
            !.greetingTimeout = Num(GreetingTimeout),
            !.socketTimeout = Num(SocketTimeout),
            !.logger = Bool(TRUE),
            !.debug = Bool(TRUE)],
        e)

createTransporter(integrationConfig, e) ==
    IF Truthy(integrationConfig)
    THEN IF MissingRequiredFields(integrationConfig)
         THEN Throw(Error(MissingSmtpFields), "integration")
         ELSE IF HostIsEmailAddress(integrationConfig)
         THEN Throw(Error(InvalidSmtpHost(integrationConfig.smtp_host)), "integration")
         ELSE Return(IntegrationTransport(integrationConfig), "integration")
    ELSE IF MissingCredentials(e)
         THEN Throw(Error(MissingEmailConfiguration), "environment")
         ELSE Return(EnvironmentTransport(e), "environment")

----------------------------------------------------------------------------
(* sendEmail *)

DefaultFromName == Str(<<"a", "N", "q", "u", "e", "s", "t", "+">>)

DefaultFromEmail == Str(<<"noreply@anquest.com">>)

\* `${x}` in a template literal
TemplateString(x) ==
    CASE x.t = "string" -> x.v
      [] x.t = "undefined" -> <<"undefined">>
      [] OTHER -> <<"[object]">>

\* fromEmail of sendEmail
SenderEmail(o, e) ==
    IF Truthy(o.integrationConfig)
    THEN Or(o.from, o.integrationConfig.from_email)
    ELSE Or(Or(Or(o.from, e.EMAIL_FROM), e.EMAIL_USER), DefaultFromEmail)

\* SenderName that prefers the configured name to the request's
SenderNameConfigFirst(o, e) ==
    IF Truthy(o.integrationConfig)
    THEN Or(Or(o.integrationConfig.from_name, o.fromName), DefaultFromName)
    ELSE Or(Or(e.EMAIL_FROM_NAME, o.fromName), DefaultFromName)

\* fromName of sendEmail
SenderName(o, e) ==
    IF Truthy(o.integrationConfig)
    THEN Or(Or(o.fromName, o.integrationConfig.from_name), DefaultFromName)
    ELSE Or(Or(o.fromName, e.EMAIL_FROM_NAME), DefaultFromName)

\* `"${fromName}" <${fromEmail}>`
SenderHeader(fromName, fromEmail) ==
    Str(<<"\"">> \o TemplateString(fromName) \o <<"\"", " ", "<">>
            \o TemplateString(fromEmail) \o <<">">>)

Recipients(to) == IF IsArray(to) THEN join(to) ELSE to

Copies(cc) == IF Truthy(cc) THEN (IF IsArray(cc) THEN join(cc) ELSE cc) ELSE Undef

MailOptions(o, e) ==
    [from |-> SenderHeader(SenderName(o, e), SenderEmail(o, e)),
     to |-> Recipients(o.to),
     subject |-> o.subject,
     text |-> o.text,
     html |-> Or(o.html, o.text),
     cc |-> Copies(o.cc),
     bcc |-> Copies(o.bcc),
     attachments |-> o.attachments]

\* the error sendEmail rethrows from its catch block
FailedToSend(error) ==
    Error(<<"Failed to send email: ">>
            \o (IF error.t = "Error" THEN error.message ELSE <<"Unknown error">>))

----------------------------------------------------------------------------
(* POST /api/send-email *)

IntegrationConfigOf(body) ==
    [t |-> "object",
     smtp_host |-> body.smtpHost,
     smtp_port |-> Number(body.smtpPort),
     smtp_user |-> body.smtpUser,
     smtp_password |-> body.smtpPass,
     smtp_secure |-> Undef,
     from_email |-> body.fromEmail,
     from_name |-> body.fromName]

OptionsOf(body) ==
    [to |-> body.to,
     subject |-> body.subject,
     text |-> body.message,
     html |-> Str(<<"<p>">> \o TemplateString(body.message) \o <<"</p>">>),
     integrationConfig |-> IntegrationConfigOf(body),
     from |-> body.fromEmail,
     fromName |-> body.fromName,
     cc |-> Undef,
     bcc |-> Undef,
     attachments |-> Undef]

SuccessResponse ==
    [status |-> 200, success |-> TRUE, message |-> <<"Email sent successfully!">>]

\* FailureResponse without res.status(500)
FailureResponseNoStatus(error) ==
    [status |-> 200, success |-> FALSE,
     message |-> IF error.t = "Error" THEN error.message ELSE <<"Failed to send email">>]

FailureResponse(error) ==
    [status |-> 500, success |-> FALSE,
     message |-> IF error.t = "Error" THEN error.message ELSE <<"Failed to send email">>]

----------------------------------------------------------------------------
(* bounded inputs *)

MaxAddrs == 2

MaxOtherPorts == 1

sA == Str(<<"a", "@", "x", ".", "c", "o", "m">>)

sB == Str(<<"b", "@", "x", ".", "c", "o", "m">>)

Empty == Str(<<>>)

Addresses == {sA, sB}

AddressLists == UNION {[1..n -> Addresses] : n \in 0..MaxAddrs}

\* a to / cc / bcc value: absent, empty, one address, or a list of addresses
AddressFields == {Undef, Empty, sA} \cup {Arr(l) : l \in AddressLists}

MailHost == Str(<<"m", "x", ".", "o", "r", "g">>)

AddressAsHost == Str(<<"f", "o", "o", "@", "b", "a", "r">>)

User == Str(<<"u">>)

Pass == Str(<<"p">>)

Subject == Str(<<"s">>)

Text == Str(<<"t">>)

Html == Str(<<"<b>", "t", "</b>">>)

\* ports other than 465 and 587: the plain SMTP port, the ports next to 465,
\* and the NaN that Number() makes of a malformed port
OtherPorts == {Num(25), NaN} \cup {Num(ImplicitTLSPort + k) : k \in 1..MaxOtherPorts}

IntegrationConfigs ==
    [t : {"object"},
     smtp_host : {Empty, MailHost, AddressAsHost, Str(<<"@">>)},
     smtp_port : {Num(ImplicitTLSPort), Num(StartTLSPort)} \cup OtherPorts,
     smtp_user : {Undef, Empty, User},
     smtp_password : {Undef, Empty, Pass},
     smtp_secure : {Undef, Bool(TRUE), Bool(FALSE)},
     from_email : {Undef, sB},
     from_name : {Undef}]

ResolveEnvs ==
    [EMAIL_SERVICE : {Undef, Empty, Str(<<"o", "u", "t", "l", "o", "o", "k">>)},
     EMAIL_HOST : {Undef, Empty, MailHost},
     EMAIL_PORT : {Undef, Empty, Str(<<"4", "6", "5">>), Str(<<"5", "8", "7">>),
                   Str(<<"2", "5">>), Str(<<"x">>)},
     EMAIL_USER : {Undef, Empty, User},
     EMAIL_PASSWORD : {Undef, Pass},
     EMAIL_FROM : {Undef},
     EMAIL_FROM_NAME : {Undef}]

DispatchEnvs ==
    [EMAIL_SERVICE : {Undef},
     EMAIL_HOST : {Undef, MailHost},
     EMAIL_PORT : {Undef},
     EMAIL_USER : {Undef, User},
     EMAIL_PASSWORD : {Pass},
     EMAIL_FROM : {Undef, sB},
     EMAIL_FROM_NAME : {Undef, Empty, Str(<<"E">>)}]

ValidConfig ==
    [t |-> "object", smtp_host |-> MailHost, smtp_port |-> Num(StartTLSPort),
     smtp_user |-> User, smtp_password |-> Pass, smtp_secure |-> Undef,
     from_email |-> sB, from_name |-> Undef]

\* configs of the sender family: every from_name, and every way to be invalid
SenderConfigs ==
    {[ValidConfig EXCEPT !.from_name = n] : n \in {Undef, Empty, Str(<<"I">>)}}
        \cup {[ValidConfig EXCEPT !.smtp_host = h] : h \in {Empty, AddressAsHost}}
        \cup {[ValidConfig EXCEPT !.smtp_user = u] : u \in {Undef, Empty}}
        \cup {[ValidConfig EXCEPT !.smtp_password = w] : w \in {Undef, Empty}}
        \cup {[ValidConfig EXCEPT !.smtp_user = Undef, !.smtp_host = AddressAsHost]}

BaseOptions ==
    [from |-> Undef, fromName |-> Undef, integrationConfig |-> Undef, to |-> sA,
     subject |-> Subject, text |-> Text, html |-> Undef, cc |-> Undef,
     bcc |-> Undef, attachments |-> Undef]

Attachment == [filename |-> Str(<<"f">>), content |-> Str(<<"c">>)]

\* requests that vary the sender and the transport configuration
SenderOptions ==
    {[BaseOptions EXCEPT !.integrationConfig = c, !.from = f, !.fromName = n] :
        c \in SenderConfigs \cup {Undef},
        f \in {Undef, sA},
        n \in {Undef, Empty, Str(<<"R">>)}}

\* requests that vary the recipients, the body and the attachments
RecipientOptions ==
    {[BaseOptions EXCEPT !.integrationConfig = c, !.to = r, !.text = b[1],
                         !.html = b[2], !.attachments = b[3]] :
        c \in {Undef, ValidConfig},
        r \in {sA} \cup {Arr(l) : l \in AddressLists \ {<<>>}},
        b \in {<<Text, Undef, Undef>>, <<Text, Html, Undef>>, <<Undef, Html, Undef>>,
               <<Text, Empty, Arr(<<Attachment>>)>>}}

\* requests that vary cc and bcc
CopyOptions ==
    {[BaseOptions EXCEPT !.integrationConfig = c, !.cc = x, !.bcc = y] :
        c \in {Undef, ValidConfig}, x \in AddressFields, y \in AddressFields}

SendEmailOptions == SenderOptions \cup RecipientOptions \cup CopyOptions

Bodies ==
    [smtpHost : {Undef, MailHost, AddressAsHost},
     smtpPort : {Undef, Num(ImplicitTLSPort), Str(<<"5", "8", "7">>), Str(<<"2", "5">>)},
     smtpUser : {Undef, User},
     smtpPass : {Empty, Pass},
     fromEmail : {Undef, sB},
     fromName : {Undef, Empty, Str(<<"R">>)},
     to : {sA},
     subject : {Subject},
     message : {Undef, Text}]

\* what transporter.sendMail / verify rejects with
TransportErrors ==
    {Error(<<"connect ECONNREFUSED">>), Error(<<"Invalid login">>), Str(<<"boom">>)}

----------------------------------------------------------------------------
(* the calls *)

Idle ==
    /\ pc = "idle"
    /\ entry = "none"
    /\ options = Undef
    /\ resolvedFrom = "none"
    /\ transporter = Undef
    /\ mailOptions = Undef
    /\ rejection = Undef
    /\ thrown = Undef
    /\ result = Undef
    /\ response = <<>>
    /\ createTransportCalls = 0
    /\ sendMailCalls = 0

Init == env \in DispatchEnvs /\ Idle

InitResolve == env \in ResolveEnvs /\ Idle

\* sendEmail from its entry to the await of transporter.sendMail: the
\* transport created and the message handed to sendMail, or the error the
\* catch block rethrows when createTransporter throws
sendEmail(o, e) ==
    LET r == createTransporter(o.integrationConfig, e)
    IN  IF r.threw
        THEN [threw |-> TRUE, branch |-> r.branch, transporter |-> Undef,
              mailOptions |-> Undef, error |-> FailedToSend(r.value)]
        ELSE [threw |-> FALSE, branch |-> r.branch, transporter |-> r.value,
              mailOptions |-> MailOptions(o, e), error |-> Undef]

\* a direct call of the exported sendEmail
SendEmail ==
    \E o \in SendEmailOptions :
        LET r == sendEmail(o, env)
        IN  /\ pc = "idle"
            /\ pc' = IF r.threw THEN "done" ELSE "sendMail"
            /\ entry' = "sendEmail"
            /\ options' = o
            /\ resolvedFrom' = r.branch
            /\ transporter' = r.transporter
            /\ createTransportCalls' = IF r.threw THEN 0 ELSE createTransportCalls + 1
            /\ mailOptions' = r.mailOptions
            /\ sendMailCalls' = IF r.threw THEN 0 ELSE sendMailCalls + 1
            /\ thrown' = r.error
            /\ UNCHANGED <<env, rejection, result, response>>

\* app.post('/api/send-email'): the handler up to its await of sendEmail, or
\* to the 500 it answers when sendEmail throws at once
PostSendEmail ==
    \E body \in Bodies :
        LET r == sendEmail(OptionsOf(body), env)
        IN  /\ pc = "idle"
            /\ pc' = IF r.threw THEN "done" ELSE "sendMail"
            /\ entry' = "http"
            /\ options' = OptionsOf(body)
            /\ resolvedFrom' = r.branch
            /\ transporter' = r.transporter
            /\ createTransportCalls' = IF r.threw THEN 0 ELSE createTransportCalls + 1
            /\ mailOptions' = r.mailOptions
            /\ sendMailCalls' = IF r.threw THEN 0 ELSE sendMailCalls + 1
            /\ thrown' = r.error
            /\ response' = IF r.threw
                           THEN Append(response, FailureResponse(r.error))
                           ELSE response
            /\ UNCHANGED <<env, rejection, result>>

\* transporter.sendMail resolves: sendEmail returns, the handler answers 200
SendMailFulfilled ==
    /\ pc = "sendMail"
    /\ pc' = "done"
    /\ response' = IF entry = "http" THEN Append(response, SuccessResponse) ELSE response
    /\ UNCHANGED <<env, entry, options, resolvedFrom, transporter, mailOptions,
                   rejection, thrown, result, createTransportCalls, sendMailCalls>>

\* SendMailRejected that sends once more after the first rejection
SendMailRejectedRetry ==
    \E e \in TransportErrors :
        /\ pc = "sendMail"
        /\ rejection' = e
        /\ IF sendMailCalls < 2
           THEN /\ sendMailCalls' = sendMailCalls + 1
                /\ UNCHANGED <<pc, thrown, response>>
           ELSE /\ pc' = "done"
                /\ thrown' = FailedToSend(e)
                /\ response' = IF entry = "http"
                               THEN Append(response, FailureResponse(FailedToSend(e)))
                               ELSE response
                /\ UNCHANGED sendMailCalls
        /\ UNCHANGED <<env, entry, options, resolvedFrom, transporter, mailOptions,
                       result, createTransportCalls>>

\* transporter.sendMail rejects: sendEmail rethrows, the handler answers 500
SendMailRejected ==
    \E e \in TransportErrors :
        /\ pc = "sendMail"
        /\ pc' = "done"
        /\ rejection' = e
        /\ thrown' = FailedToSend(e)
        /\ response' = IF entry = "http"
                       THEN Append(response, FailureResponse(FailedToSend(e)))
                       ELSE response
        /\ UNCHANGED <<env, entry, options, resolvedFrom, transporter, mailOptions,
                       result, createTransportCalls, sendMailCalls>>

\* verifyEmailConfig up to its await of transporter.verify, or to `false`
VerifyEmailConfig ==
    LET r == createTransporter(Undef, env)
    IN  /\ pc = "idle"
        /\ entry' = "verify"
        /\ resolvedFrom' = r.branch
        /\ IF r.threw
           THEN /\ transporter' = Undef
                /\ createTransportCalls' = 0
                /\ result' = Bool(FALSE)
                /\ pc' = "done"
           ELSE /\ transporter' = r.value
                /\ createTransportCalls' = createTransportCalls + 1
                /\ result' = Undef
                /\ pc' = "verify"
        /\ UNCHANGED <<env, options, mailOptions, rejection, thrown, response, sendMailCalls>>

\* transporter.verify settles: true when it resolves, false when it rejects
VerifySettled ==
    /\ pc = "verify"
    /\ pc' = "done"
    /\ \E ok \in BOOLEAN : result' = Bool(ok)
    /\ UNCHANGED <<env, entry, options, resolvedFrom, transporter, mailOptions,
                   rejection, thrown, response, createTransportCalls, sendMailCalls>>

\* the call is over; the next one starts from scratch
Finish ==
    /\ pc = "done"
    /\ pc' = "idle"
    /\ entry' = "none"
    /\ options' = Undef
    /\ resolvedFrom' = "none"
    /\ transporter' = Undef
    /\ mailOptions' = Undef
    /\ rejection' = Undef
    /\ thrown' = Undef
    /\ result' = Undef
    /\ response' = <<>>
    /\ createTransportCalls' = 0
    /\ sendMailCalls' = 0
    /\ UNCHANGED env

Next ==
    \/ SendEmail
    \/ PostSendEmail
    \/ SendMailFulfilled
    \/ SendMailRejected
    \/ VerifyEmailConfig
    \/ VerifySettled
    \/ Finish

Spec == Init /\ [][Next]_vars

\* createTransporter alone, applied to an integration config
ResolveIntegration ==
    \E c \in IntegrationConfigs :
        LET r == createTransporter(c, env)
        IN  /\ pc = "idle"
            /\ pc' = "done"
            /\ entry' = "createTransporter"
            /\ options' = c
            /\ resolvedFrom' = r.branch
            /\ transporter' = IF r.threw THEN Undef ELSE r.value
            /\ thrown' = IF r.threw THEN r.value ELSE Undef
            /\ createTransportCalls' = IF r.threw THEN 0 ELSE 1
            /\ UNCHANGED <<env, mailOptions, rejection, result, response, sendMailCalls>>

\* createTransporter alone, applied to no argument
ResolveEnvironment ==
    LET r == createTransporter(Undef, env)
    IN  /\ pc = "idle"
        /\ pc' = "done"
        /\ entry' = "createTransporter"
        /\ options' = Undef
        /\ resolvedFrom' = r.branch
        /\ transporter' = IF r.threw THEN Undef ELSE r.value
        /\ thrown' = IF r.threw THEN r.value ELSE Undef
        /\ createTransportCalls' = IF r.threw THEN 0 ELSE 1
        /\ UNCHANGED <<env, mailOptions, rejection, result, response, sendMailCalls>>

NextResolve ==
    \/ ResolveIntegration
    \/ ResolveEnvironment
    \/ Finish

SpecResolve == InitResolve /\ [][NextResolve]_vars

----------------------------------------------------------------------------
(* properties of createTransporter, checked under SpecResolve *)

\* a value that is present and not the empty string
NonEmpty(x) == x # Undef /\ x # Empty

ContainsAt(x) == x.t = "string" /\ "@" \in {x.v[i] : i \in 1..Len(x.v)}

\* createTransporter was applied to an integration config
ResolvedIntegration ==
    entry = "createTransporter" /\ pc = "done" /\ options # Undef

\* createTransporter was applied to no argument
ResolvedEnvironment ==
    entry = "createTransporter" /\ pc = "done" /\ options = Undef

PassesValidation(c) ==
    /\ NonEmpty(c.smtp_host) /\ ~ContainsAt(c.smtp_host)
    /\ NonEmpty(c.smtp_user)
    /\ NonEmpty(c.smtp_password)

\* the port invariant of a profile: 465 is implicit TLS, 587 is STARTTLS, any
\* other port requires TLS exactly when it is not secure
PortInvariant(p) ==
    /\ p.port = Num(465) => p.secure = Bool(TRUE) /\ p.requireTLS = Undef
    /\ p.port = Num(587) => p.secure = Bool(FALSE) /\ p.requireTLS = Bool(TRUE)
    /\ p.port \notin {Num(465), Num(587)} =>
            /\ p.secure \in {Bool(TRUE), Bool(FALSE)}
            /\ p.requireTLS = (IF p.secure = Bool(FALSE) THEN Bool(TRUE) ELSE Undef)

\* C1: an integration config that passes validation yields a profile whose
\* secure / requireTLS pair is: secure, no requireTLS on port 465; not secure,
\* requireTLS on port 587, both whatever smtp_secure is; on any other port
\* secure is smtp_secure (false when absent) and requireTLS is set exactly
\* when secure is false.
C1_SecurityDerivation ==
    (ResolvedIntegration /\ PassesValidation(options)) =>
        /\ thrown = Undef
        /\ transporter # Undef
        /\ transporter.port = options.smtp_port
        /\ PortInvariant(transporter)
        /\ options.smtp_port \notin {Num(465), Num(587)} =>
              transporter.secure = Bool(options.smtp_secure = Bool(TRUE))

C1_Witness ==
    /\ ResolvedIntegration
    /\ PassesValidation(options)
    /\ options.smtp_port = Num(587)
    /\ options.smtp_secure = Bool(TRUE)
    /\ transporter.secure = Bool(FALSE)
    /\ transporter.requireTLS = Bool(TRUE)

\* C2: an integration config whose smtp_host contains '@' makes
\* createTransporter throw an error and build no transport, whatever its
\* other fields are.
C2_AddressAsHostRejected ==
    (ResolvedIntegration /\ ContainsAt(options.smtp_host)) =>
        /\ thrown # Undef
        /\ thrown.t = "Error"
        /\ transporter = Undef
        /\ createTransportCalls = 0

C2_Witness ==
    /\ ResolvedIntegration
    /\ options.smtp_host = AddressAsHost
    /\ options.smtp_user = User
    /\ options.smtp_password = Pass
    /\ thrown = Error(InvalidSmtpHost(AddressAsHost))

\* C4: every profile createTransporter builds has exactly one of host and
\* service set.
C4_HostXorService ==
    (entry = "createTransporter" /\ transporter # Undef) =>
        (transporter.host # Undef) # (transporter.service # Undef)

C4_Witness ==
    /\ ResolvedEnvironment
    /\ NonEmpty(env.EMAIL_SERVICE)
    /\ NonEmpty(env.EMAIL_HOST)
    /\ transporter # Undef
    /\ transporter.service = env.EMAIL_SERVICE
    /\ transporter.host = Undef

\* C5 as stated: every profile that carries a port satisfies the port
\* invariant, whichever source it was resolved from.
C5_PortInvariantEverySource ==
    (entry = "createTransporter" /\ transporter # Undef /\ transporter.port # Undef) =>
        PortInvariant(transporter)

\* C5 as amended: a profile resolved from an integration config satisfies the
\* port invariant; a profile resolved from the environment with a port has
\* secure set exactly when the port is 465 and never carries requireTLS.
C5_PortInvariantBySource ==
    (entry = "createTransporter" /\ transporter # Undef /\ transporter.port # Undef) =>
        /\ resolvedFrom = "integration" => PortInvariant(transporter)
        /\ resolvedFrom = "environment" =>
              /\ transporter.secure = Bool(transporter.port = Num(465))
              /\ transporter.requireTLS = Undef

C5_Witness ==
    /\ ResolvedEnvironment
    /\ transporter # Undef
    /\ transporter.port = Num(587)
    /\ transporter.secure = Bool(FALSE)
    /\ transporter.requireTLS = Undef

\* the port the environment names: 587 when EMAIL_PORT is unset or empty
NamedPort(p) ==
    CASE p = Undef \/ p = Empty -> Num(587)
      [] p = Str(<<"4", "6", "5">>) -> Num(465)
      [] p = Str(<<"5", "8", "7">>) -> Num(587)
      [] p = Str(<<"2", "5">>) -> Num(25)
      [] p = Str(<<"2", "5", "2", "5">>) -> Num(2525)
      [] OTHER -> NaN

\* C8: without an integration config and with EMAIL_USER and EMAIL_PASSWORD
\* set, the profile uses EMAIL_SERVICE alone when it is set; else EMAIL_HOST
\* with the port of EMAIL_PORT (587 when unset) and secure exactly on port
\* 465; else the service gmail.  Without the credentials createTransporter
\* throws.
C8_EnvironmentResolution ==
    ResolvedEnvironment =>
        IF NonEmpty(env.EMAIL_USER) /\ NonEmpty(env.EMAIL_PASSWORD)
        THEN /\ thrown = Undef
             /\ transporter # Undef
             /\ transporter.auth = [user |-> env.EMAIL_USER, pass |-> env.EMAIL_PASSWORD]
             /\ IF NonEmpty(env.EMAIL_SERVICE)
                THEN /\ transporter.service = env.EMAIL_SERVICE
                     /\ transporter.host = Undef
                     /\ transporter.port = Undef
                     /\ transporter.secure = Undef
                ELSE IF NonEmpty(env.EMAIL_HOST)
                THEN /\ transporter.service = Undef
                     /\ transporter.host = env.EMAIL_HOST
                     /\ transporter.port = NamedPort(env.EMAIL_PORT)
                     /\ transporter.secure = Bool(NamedPort(env.EMAIL_PORT) = Num(465))
                ELSE /\ transporter.service = Str(<<"g", "m", "a", "i", "l">>)
                     /\ transporter.host = Undef
                     /\ transporter.port = Undef
                     /\ transporter.secure = Undef
        ELSE /\ thrown # Undef
             /\ thrown.t = "Error"
             /\ transporter = Undef

C8_Witness ==
    /\ ResolvedEnvironment
    /\ NonEmpty(env.EMAIL_SERVICE)
    /\ NonEmpty(env.EMAIL_HOST)
    /\ env.EMAIL_PORT = Str(<<"4", "6", "5">>)
    /\ transporter # Undef
    /\ transporter.service = env.EMAIL_SERVICE
    /\ transporter.port = Undef

----------------------------------------------------------------------------
(* properties of sendEmail and of the handler, checked under Spec *)

\* a call of sendEmail is in progress or over
InSendEmail == entry \in {"sendEmail", "http"}

\* sendEmail handed a message to the transport
Dispatched == InSendEmail /\ mailOptions # Undef

\* the sender header is "<name>" <...>
DisplayNameIs(header, name) ==
    LET n == Len(name.v)
    IN  /\ header.t = "string"
        /\ Len(header.v) >= n + 4
        /\ SubSeq(header.v, 1, n + 4) = <<"\"">> \o name.v \o <<"\"", " ", "<">>

\* the name sendEmail falls back on when the request names none
FallbackName ==
    IF options.integrationConfig # Undef
    THEN IF NonEmpty(options.integrationConfig.from_name)
         THEN options.integrationConfig.from_name
         ELSE Str(<<"a", "N", "q", "u", "e", "s", "t", "+">>)
    ELSE IF NonEmpty(env.EMAIL_FROM_NAME)
         THEN env.EMAIL_FROM_NAME
         ELSE Str(<<"a", "N", "q", "u", "e", "s", "t", "+">>)

\* C3: a call of sendEmail with an integration config whose smtp_user or
\* smtp_password is empty or absent ends in an error, and at no point of the
\* call is a transport created or sendMail invoked.
C3_NoNetworkWithoutCredentials ==
    (/\ InSendEmail
     /\ options.integrationConfig # Undef
     /\ \/ ~NonEmpty(options.integrationConfig.smtp_user)
        \/ ~NonEmpty(options.integrationConfig.smtp_password)) =>
        /\ pc = "done"
        /\ thrown # Undef
        /\ thrown.t = "Error"
        /\ createTransportCalls = 0
        /\ sendMailCalls = 0
        /\ transporter = Undef
        /\ mailOptions = Undef

C3_Witness ==
    /\ entry = "sendEmail"
    /\ options.integrationConfig # Undef
    /\ options.integrationConfig.smtp_host = MailHost
    /\ options.integrationConfig.smtp_user = User
    /\ options.integrationConfig.smtp_password = Empty
    /\ pc = "done"
    /\ thrown # Undef
    /\ sendMailCalls = 0

\* C6 as stated: whenever the request carries a fromName, whatever its
\* value, the display name of the sender header is that fromName.
C6_FromNameAlwaysOverrides ==
    (Dispatched /\ options.fromName # Undef) =>
        DisplayNameIs(mailOptions.from, options.fromName)

\* C6 as amended: whenever the request carries a non-empty fromName the
\* display name is that fromName, in both code paths; an empty fromName is
\* treated as an absent one, and then the integration from_name, the
\* environment default or 'aNquest+' is used.
C6_NonEmptyFromNameOverrides ==
    Dispatched =>
        IF NonEmpty(options.fromName)
        THEN DisplayNameIs(mailOptions.from, options.fromName)
        ELSE DisplayNameIs(mailOptions.from, FallbackName)

C6_Witness ==
    /\ Dispatched
    /\ options.fromName = Str(<<"R">>)
    /\ options.integrationConfig # Undef
    /\ options.integrationConfig.from_name = Str(<<"I">>)
    /\ DisplayNameIs(mailOptions.from, Str(<<"R">>))

\* C7: a POST /api/send-email request has no response while sendEmail is
\* pending and exactly one once it is over: 200 with success when sendEmail
\* returned, 500 with the error text when it threw, be it a configuration or
\* a dispatch failure; createTransporter never reads the environment on this
\* route.
C7_OneResponsePerRequest ==
    entry = "http" =>
        /\ resolvedFrom = "integration"
        /\ options.integrationConfig # Undef
        /\ pc = "sendMail" => response = <<>>
        /\ pc = "done" =>
              /\ Len(response) = 1
              /\ IF thrown = Undef
                 THEN response[1] =
                        [status |-> 200, success |-> TRUE,
                         message |-> <<"Email sent successfully!">>]
                 ELSE response[1] =
                        [status |-> 500, success |-> FALSE, message |-> thrown.message]

C7_Witness ==
    /\ entry = "http"
    /\ pc = "done"
    /\ rejection # Undef
    /\ Len(response) = 1
    /\ response[1].status = 500

\* a cc / bcc value that the request does not provide
NotProvided(x) == x \in {Undef, Empty, Arr(<<>>)}

CopyAsClaimed(given, sent) ==
    /\ sent # Empty
    /\ NotProvided(given) => sent = Undef
    /\ (given.t = "array" /\ given.v # <<>>) => sent = Str(JoinSeq(given.v))
    /\ (given.t = "string" /\ given.v # <<>>) => sent = given

\* C9: in the message handed to the transport cc and bcc are never the empty
\* string: absent, empty or an empty sequence they are omitted, a sequence is
\* joined with ', ' in order, a single address is passed unchanged.
C9_NoEmptyCopies ==
    Dispatched =>
        /\ CopyAsClaimed(options.cc, mailOptions.cc)
        /\ CopyAsClaimed(options.bcc, mailOptions.bcc)

\* C10: a call of sendEmail invokes sendMail at most once; after a rejection
\* it ends, without a further attempt, in one error whose message is
\* 'Failed to send email: ' followed by the rejection's message; after a
\* success it returns having sent once.
C10_AtMostOneSend ==
    /\ sendMailCalls <= 1
    /\ pc = "sendMail" => sendMailCalls = 1
    /\ (InSendEmail /\ pc = "done" /\ rejection # Undef) =>
          /\ sendMailCalls = 1
          /\ thrown # Undef
          /\ thrown.t = "Error"
          /\ Head(thrown.message) = "Failed to send email: "
          /\ rejection.t = "Error" => Tail(thrown.message) = rejection.message
    /\ (InSendEmail /\ pc = "done" /\ thrown = Undef) => sendMailCalls = 1

C10_Witness ==
    /\ entry = "http"
    /\ pc = "done"
    /\ rejection = Error(<<"Invalid login">>)
    /\ sendMailCalls = 1
    /\ thrown = Error(<<"Failed to send email: ", "Invalid login">>)

====
